---- MODULE Spec2Model ----
(***************************************************************************)
(* A model of the code-intelligence core of autodoc: the import            *)
(* DependencyGraph (analysis/dependency_graph.py), the                     *)
(* SemanticChangeAnalyzer (analysis/semantic_changes.py), the repository   *)
(* scan (core/scan.py) and the state file (core/state.py).                 *)
(*                                                                         *)
(* Strings the code takes apart (paths, import names, parameter strings,   *)
(* structural hashes) are sequences of tokens: a token is a separator      *)
(* character ("." "/" ":" "=" "?" " ") or a maximal run of other           *)
(* characters, so two strings are equal exactly when their token sequences *)
(* are.  "pkg/util.py" is <<"pkg", "/", "util", ".", "py">>.               *)
(***************************************************************************)
EXTENDS Integers, Sequences, FiniteSets, TLC

VARIABLES
    nodes,          \* DependencyGraph._nodes: insertion-ordered entries
    dependencies,   \* DependencyGraph._dependencies: path -> set of paths
    dependents,     \* DependencyGraph._dependents: path -> set of paths
    import_cache,   \* DependencyGraph._import_cache: <<source, import>> -> path or None
    ret,            \* the last call on the graph and the value it returned
    cc_in,          \* arguments of the analyzer or load_state call under check
    cc_out,         \* the value that call returned, or NoResult
    state,          \* the state dictionary kept between scans (state.json)
    watch           \* watch mode: the event handler's fields, the clock and
                    \* where the observer thread and the polling loop stand

vars ==
    <<nodes, dependencies, dependents, import_cache, ret, cc_in, cc_out, state, watch>>

graph_vars == <<nodes, dependencies, dependents, import_cache, ret>>

classify_vars == <<cc_in, cc_out>>

-----------------------------------------------------------------------------
(* Bounds of the model *)

\* the largest import set handed to one add_file call
MaxImports == 1

-----------------------------------------------------------------------------
(* Token strings *)

\* Python's None (and the falsy empty string) as a resolved path
None == << >>

\* s.startswith(prefix)
StartsWith(s, prefix) ==
    /\ Len(s) >= Len(prefix)
    /\ SubSeq(s, 1, Len(prefix)) = prefix

\* s.endswith(suffix)
EndsWith(s, suffix) ==
    /\ Len(s) >= Len(suffix)
    /\ SubSeq(s, Len(s) - Len(suffix) + 1, Len(s)) = suffix

\* s.replace(old, new) for one-character old and new
Replace(s, old, new) ==
    [i \in DOMAIN s |-> IF s[i] = old THEN new ELSE s[i]]

\* s[n:]
Drop(s, n) == SubSeq(s, n + 1, Len(s))

RECURSIVE Split(_, _)
\* s.split(sep): the pieces of s between the occurrences of sep
Split(s, sep) ==
    IF \A i \in DOMAIN s : s[i] # sep
    THEN <<s>>
    ELSE LET k == CHOOSE i \in DOMAIN s :
                      s[i] = sep /\ \A j \in 1..(i - 1) : s[j] # sep
         IN  <<SubSeq(s, 1, k - 1)>> \o Split(Drop(s, k), sep)

RECURSIVE Join(_, _)
\* sep.join(pieces)
Join(pieces, sep) ==
    IF pieces = << >> THEN << >>
    ELSE IF Len(pieces) = 1 THEN pieces[1]
    ELSE pieces[1] \o <<sep>> \o Join(Tail(pieces), sep)

\* the number of leading "." characters of an import name
LeadingDots(s) ==
    IF \A i \in DOMAIN s : s[i] = "." THEN Len(s)
    ELSE (CHOOSE i \in DOMAIN s : s[i] # "." /\ \A j \in 1..(i - 1) : s[j] = ".") - 1

-----------------------------------------------------------------------------
(* pathlib.Path: absolute or not, and the parts between the slashes *)

IsPart(seg) == seg # << >> /\ seg # <<".">>

\* Path(s): empty and "." components are dropped, ".." is kept
PurePath(s) ==
    [abs   |-> s # << >> /\ s[1] = "/",
     parts |-> SelectSeq(Split(s, "/"), IsPart)]

\* str(path)
PathStr(p) ==
    IF p.abs THEN <<"/">> \o Join(p.parts, "/")
    ELSE IF p.parts = << >> THEN <<".">>
    ELSE Join(p.parts, "/")

\* path.parent
PathParent(p) ==
    IF p.parts = << >> THEN p
    ELSE [p EXCEPT !.parts = SubSeq(p.parts, 1, Len(p.parts) - 1)]

RECURSIVE PathAscend(_, _)
\* path.parent taken n times
PathAscend(p, n) == IF n <= 0 THEN p ELSE PathAscend(PathParent(p), n - 1)

\* path / s
PathJoin(p, s) ==
    LET q == PurePath(s)
    IN  IF q.abs THEN q ELSE [abs |-> p.abs, parts |-> p.parts \o q.parts]

\* the working directory of the process: some absolute directory
Cwd == [abs |-> TRUE, parts |-> << <<"cwd">> >>]

RECURSIVE Collapse(_, _)
\* the parts with every ".." cancelled against the part before it
Collapse(done, rest) ==
    IF rest = << >> THEN done
    ELSE IF Head(rest) = <<".", ".">>
         THEN Collapse(IF done = << >> THEN done
                       ELSE SubSeq(done, 1, Len(done) - 1), Tail(rest))
         ELSE Collapse(Append(done, Head(rest)), Tail(rest))

\* path.resolve(): made absolute against the working directory, ".." collapsed
PathResolve(p) ==
    [abs   |-> TRUE,
     parts |-> Collapse(<< >>, IF p.abs THEN p.parts ELSE Cwd.parts \o p.parts)]

-----------------------------------------------------------------------------
(* The inputs of the graph operations *)

a_py == <<"a", ".", "py">>
b_py == <<"b", ".", "py">>
b_init_py == <<"b", "/", "__init__", ".", "py">>

\* the repository-relative paths handed to add_file and remove_file
Paths == {a_py, b_py, b_init_py}

\* the import names handed to add_file: the relative ".a" and the absolute "b"
ImportNames == { <<".", "a">>, <<"b">> }

\* the language tags handed to add_file
Languages == {"python"}

ImportSets == {S \in SUBSET ImportNames : Cardinality(S) <= MaxImports}

-----------------------------------------------------------------------------
(* DependencyGraph *)

\* the keys of _nodes
Tracked(ns) == {ns[i].path : i \in DOMAIN ns}

\* the first candidate that is a tracked path, else None
FirstTracked(candidates, tracked) ==
    IF \A i \in DOMAIN candidates : candidates[i] \notin tracked THEN None
    ELSE candidates[CHOOSE i \in DOMAIN candidates :
                        /\ candidates[i] \in tracked
                        /\ \A j \in 1..(i - 1) : candidates[j] \notin tracked]

_resolve_python_import(tracked, source_file, import_name) ==
    LET candidates ==
          IF StartsWith(import_name, <<".">>)
          THEN LET source_dir  == PathStr(PathParent(PurePath(source_file)))
                   level       == LeadingDots(import_name)
                   current_dir == PathAscend(PurePath(source_dir), level - 1)
                   module_part == Drop(import_name, level)
                   module_path ==
                       IF module_part # << >>
                       THEN PathJoin(current_dir, Replace(module_part, ".", "/"))
                       ELSE current_dir
               IN  << PathStr(module_path) \o <<".", "py">>,
                      PathStr(PathJoin(module_path, <<"__init__", ".", "py">>)) >>
          ELSE LET module_path == Replace(import_name, ".", "/")
               IN  << module_path \o <<".", "py">>,
                      module_path \o <<"/", "__init__", ".", "py">> >>
    IN  FirstTracked(candidates, tracked)

\* the extensions _resolve_javascript_import tries, in order
JsExtensions == <<"js", "jsx", "ts", "tsx", "mjs", "cjs">>

_resolve_javascript_import(tracked, source_file, import_name) ==
    IF ~(StartsWith(import_name, <<".", "/">>) \/ StartsWith(import_name, <<".", ".", "/">>))
    THEN None
    ELSE LET source_dir  == PathParent(PurePath(source_file))
             target_path == PathResolve(PathJoin(source_dir, import_name))
             target      == PathStr(target_path)
             has_ext     == \E i \in DOMAIN JsExtensions :
                                EndsWith(target, <<".", JsExtensions[i]>>)
             with_ext    == [i \in DOMAIN JsExtensions |->
                                target \o <<".", JsExtensions[i]>>]
             index       == [i \in DOMAIN JsExtensions |->
                                PathStr(PathJoin(target_path,
                                                 <<"index", ".", JsExtensions[i]>>))]
             candidates  == IF has_ext THEN <<target>>
                            ELSE <<target>> \o with_ext \o index
         IN  FirstTracked(candidates, tracked)

\* what _resolve_import computes when the cache has no entry for the pair
ResolveFresh(tracked, source_file, import_name, language) ==
    IF language = "python"
    THEN _resolve_python_import(tracked, source_file, import_name)
    ELSE IF language \in {"javascript", "typescript", "jsx", "tsx"}
    THEN _resolve_javascript_import(tracked, source_file, import_name)
    ELSE None

\* _resolve_import that resolves anew at every call
_resolve_import_uncached(cache, tracked, source_file, import_name, language) ==
    ResolveFresh(tracked, source_file, import_name, language)

\* the value _resolve_import returns: the cached one when there is one
_resolve_import(cache, tracked, source_file, import_name, language) ==
    IF <<source_file, import_name>> \in DOMAIN cache
    THEN cache[<<source_file, import_name>>]
    ELSE ResolveFresh(tracked, source_file, import_name, language)

\* d.get(key, set())
Get(d, key) == IF key \in DOMAIN d THEN d[key] ELSE {}

\* the graph as one value
Graph(ns, deps, dpts, cache) ==
    [nodes |-> ns, dependencies |-> deps, dependents |-> dpts, import_cache |-> cache]

EmptyGraph == Graph(<< >>, << >>, << >>, << >>)

\* _nodes[path] = DependencyNode(...): a known key keeps its place
PutNode(ns, path, imports, language) ==
    LET node == [path |-> path, imports |-> imports, language |-> language]
    IN  IF path \in Tracked(ns)
        THEN [i \in DOMAIN ns |-> IF ns[i].path = path THEN node ELSE ns[i]]
        ELSE Append(ns, node)

\* the clearing step that also drops the edges into the file
ClearOldBothWays(g, path) ==
    [dependencies |-> [q \in DOMAIN g.dependencies |->
                          IF q = path THEN {} ELSE g.dependencies[q] \ {path}],
     dependents   |-> [q \in DOMAIN g.dependents |->
                          IF q = path THEN {} ELSE g.dependents[q] \ {path}]]

\* "clear old relationships for this file": the file leaves the dependents of
\* its old dependencies and its own dependency set is emptied
ClearOld(g, path) ==
    IF path \in DOMAIN g.dependencies
    THEN [dependencies |-> [g.dependencies EXCEPT ![path] = {}],
          dependents   |-> [q \in DOMAIN g.dependents |->
                               IF q \in g.dependencies[path]
                               THEN g.dependents[q] \ {path}
                               ELSE g.dependents[q]]]
    ELSE [dependencies |-> g.dependencies, dependents |-> g.dependents]

add_file(g, path, imports, language) ==
    LET ns1 == PutNode(g.nodes, path, imports, language)
        c   == ClearOld(g, path)
        resolved(i) == _resolve_import(g.import_cache, Tracked(ns1), path, i, language)
        targets == {resolved(i) : i \in imports} \ {None}
        cache1 == [k \in DOMAIN g.import_cache \cup {<<path, i>> : i \in imports} |->
                      IF k \in DOMAIN g.import_cache THEN g.import_cache[k]
                      ELSE resolved(k[2])]
        deps1 == [q \in DOMAIN c.dependencies \cup (IF targets # {} THEN {path} ELSE {}) |->
                      IF q = path THEN targets ELSE c.dependencies[q]]
        dpts1 == [q \in DOMAIN c.dependents \cup targets |->
                      IF q \in targets THEN Get(c.dependents, q) \cup {path}
                      ELSE c.dependents[q]]
    IN  Graph(ns1, deps1, dpts1, cache1)

\* the purge that looks at the source of a cache entry only
PurgeCacheBySource(cache, path) ==
    [k \in {k \in DOMAIN cache : k[1] # path} |-> cache[k]]

\* "clear import cache entries involving this file"
PurgeCache(cache, path) ==
    [k \in {k \in DOMAIN cache : k[1] # path /\ cache[k] # path} |-> cache[k]]

\* remove_file that leaves the path in the dependency sets of its dependents
remove_file_keeps_dependents(g, path) ==
    IF path \notin Tracked(g.nodes) THEN g
    ELSE
    LET old   == Get(g.dependencies, path)
        dpts1 == [q \in DOMAIN g.dependents \ {path} |->
                     IF q \in old THEN g.dependents[q] \ {path}
                     ELSE g.dependents[q]]
        deps1 == [q \in DOMAIN g.dependencies \ {path} |-> g.dependencies[q]]
    IN  Graph(SelectSeq(g.nodes, LAMBDA n : n.path # path), deps1, dpts1,
              PurgeCache(g.import_cache, path))

remove_file(g, path) ==
    IF path \notin Tracked(g.nodes) THEN g
    ELSE
    LET had == path \in DOMAIN g.dependencies
        old == Get(g.dependencies, path)
        \* remove from dependencies
        dpts1 == IF had
                 THEN [q \in DOMAIN g.dependents |->
                          IF q \in old THEN g.dependents[q] \ {path}
                          ELSE g.dependents[q]]
                 ELSE g.dependents
        deps1 == [q \in DOMAIN g.dependencies \ {path} |-> g.dependencies[q]]
        \* remove from dependents
        users == Get(dpts1, path)
        deps2 == [q \in DOMAIN deps1 |->
                      IF q \in users THEN deps1[q] \ {path} ELSE deps1[q]]
        dpts2 == [q \in DOMAIN dpts1 \ {path} |-> dpts1[q]]
        ns1   == SelectSeq(g.nodes, LAMBDA n : n.path # path)
    IN  Graph(ns1, deps2, dpts2, PurgeCache(g.import_cache, path))

get_dependencies(g, path) == Get(g.dependencies, path)

get_dependents(g, path) == Get(g.dependents, path)

\* the adjacency maps to_dict writes: the entries with a non-empty set
NonEmpty(d) == [q \in {q \in DOMAIN d : d[q] # {}} |-> d[q]]

to_dict(g) ==
    [nodes |-> [i \in DOMAIN g.nodes |->
                   [path |-> g.nodes[i].path,
                    imports |-> g.nodes[i].imports,
                    language |-> g.nodes[i].language]],
     dependencies |-> NonEmpty(g.dependencies),
     dependents |-> NonEmpty(g.dependents)]

RECURSIVE AddAll(_, _)
\* add_file for every entry of the "nodes" map, in its order
AddAll(g, entries) ==
    IF entries = << >> THEN g
    ELSE AddAll(add_file(g, Head(entries).path, Head(entries).imports,
                         Head(entries).language),
                Tail(entries))

from_dict(data) == AddAll(EmptyGraph, data.nodes)


-----------------------------------------------------------------------------
(* The queries on the graph.  Python iterates a set of strings in an order  *)
(* that differs from run to run: `order` is the order of one run, the       *)
(* members of a set are visited as they come in it.                         *)

\* all the orderings of a set
Orderings(S) ==
    {o \in [1..Cardinality(S) -> S] : \A i, j \in DOMAIN o : i # j => o[i] # o[j]}

\* the members of S as the run iterates them
Iterate(S, order) == SelectSeq(order, LAMBDA p : p \in S)

\* list.index(x)
IndexOf(s, x) == CHOOSE i \in DOMAIN s : s[i] = x /\ \A j \in 1..(i - 1) : s[j] # x

RECURSIVE dfs(_, _, _, _), DfsEach(_, _, _, _)
\* the nested dfs of detect_cycles; st holds cycles, visited, rec_stack, path_stack
dfs(g, order, st, node) ==
    IF node \in st.rec_stack
    THEN [st EXCEPT !.cycles =
            Append(@, SubSeq(st.path_stack, IndexOf(st.path_stack, node),
                             Len(st.path_stack)) \o <<node>>)]
    ELSE IF node \in st.visited THEN st
    ELSE LET st1 == [st EXCEPT !.visited = @ \cup {node},
                               !.rec_stack = @ \cup {node},
                               !.path_stack = Append(@, node)]
             st2 == DfsEach(g, order, st1, Iterate(Get(g.dependencies, node), order))
         IN  [st2 EXCEPT !.path_stack = SubSeq(@, 1, Len(@) - 1),
                         !.rec_stack = @ \ {node}]

\* for dep in self._dependencies.get(node, set()): dfs(dep)
DfsEach(g, order, st, deps) ==
    IF deps = << >> THEN st
    ELSE DfsEach(g, order, dfs(g, order, st, Head(deps)), Tail(deps))

RECURSIVE DfsRoots(_, _, _, _)
\* for node in self._nodes: if node not in visited: dfs(node)
DfsRoots(g, order, st, roots) ==
    IF roots = << >> THEN st
    ELSE DfsRoots(g, order,
                  IF Head(roots) \notin st.visited
                  THEN dfs(g, order, st, Head(roots)) ELSE st,
                  Tail(roots))

\* detect_cycles that does not report a file importing itself
detect_cycles_no_self(g, order) ==
    SelectSeq(DfsRoots(g, order,
                       [cycles |-> << >>, visited |-> {}, rec_stack |-> {},
                        path_stack |-> << >>],
                       [i \in DOMAIN g.nodes |-> g.nodes[i].path]).cycles,
              LAMBDA c : Len(c) > 2)

detect_cycles(g, order) ==
    DfsRoots(g, order,
             [cycles |-> << >>, visited |-> {}, rec_stack |-> {}, path_stack |-> << >>],
             [i \in DOMAIN g.nodes |-> g.nodes[i].path]).cycles

RECURSIVE Relax(_, _, _)
\* the inner loop of topological_sort: one less pending import for each dependent
Relax(st, users, tracked) ==
    IF users = << >> THEN st
    ELSE LET u == Head(users)
         IN  IF u \in tracked
             THEN LET d == st.in_degree[u] - 1
                  IN  Relax([st EXCEPT !.in_degree[u] = d,
                                       !.queue = IF d = 0 THEN Append(@, u) ELSE @],
                            Tail(users), tracked)
             ELSE Relax(st, Tail(users), tracked)

RECURSIVE Kahn(_, _, _)
\* the while loop of topological_sort
Kahn(g, order, st) ==
    IF st.queue = << >> THEN st
    ELSE LET node == Head(st.queue)
             st1  == [st EXCEPT !.queue = Tail(@), !.result = Append(@, node)]
         IN  Kahn(g, order,
                  Relax(st1, Iterate(Get(g.dependents, node), order), Tracked(g.nodes)))

\* topological_sort that leaves out the files the loop did not reach
topological_sort_ordered_only(g, order) ==
    LET keys      == [i \in DOMAIN g.nodes |-> g.nodes[i].path]
        tracked   == Tracked(g.nodes)
        in_degree == [n \in tracked |->
                         Cardinality(Get(g.dependencies, n) \cap tracked)]
    IN  Kahn(g, order,
             [in_degree |-> in_degree,
              queue |-> SelectSeq(keys, LAMBDA n : in_degree[n] = 0),
              result |-> << >>]).result

\* topological_sort whose in-degree counts the files that import a file
topological_sort_by_dependents(g, order) ==
    LET keys      == [i \in DOMAIN g.nodes |-> g.nodes[i].path]
        tracked   == Tracked(g.nodes)
        in_degree == [n \in tracked |->
                         Cardinality(Get(g.dependents, n) \cap tracked)]
        st        == Kahn(g, order,
                          [in_degree |-> in_degree,
                           queue |-> SelectSeq(keys, LAMBDA n : in_degree[n] = 0),
                           result |-> << >>])
        placed    == {st.result[i] : i \in DOMAIN st.result}
    IN  IF Len(st.result) < Len(g.nodes)
        THEN st.result \o SelectSeq(keys, LAMBDA n : n \notin placed)
        ELSE st.result

topological_sort(g, order) ==
    LET keys      == [i \in DOMAIN g.nodes |-> g.nodes[i].path]
        tracked   == Tracked(g.nodes)
        in_degree == [n \in tracked |->
                         Cardinality(Get(g.dependencies, n) \cap tracked)]
        st        == Kahn(g, order,
                          [in_degree |-> in_degree,
                           queue |-> SelectSeq(keys, LAMBDA n : in_degree[n] = 0),
                           result |-> << >>])
        placed    == {st.result[i] : i \in DOMAIN st.result}
    IN  IF Len(st.result) < Len(g.nodes)
        THEN st.result \o SelectSeq(keys, LAMBDA n : n \notin placed)
        ELSE st.result

-----------------------------------------------------------------------------
(* The graph as the state of the program *)

TheGraph == Graph(nodes, dependencies, dependents, import_cache)

\* default_state(): no tracked file, empty dependency graph, a repo without
\* name; last_scan and readme_sections play no part in the scan
default_state ==
    [version |-> "1.1", repo |-> [name |-> << >>], files |-> << >>,
     dependency_graph |-> << >>]

\* last_change_time = None
NoTime == -1

\* AutodocFileSystemEventHandler.__init__: nothing pending, not processing;
\* the observer thread waits for an event, the polling loop sleeps, and no
\* path has an event that no scan has covered yet
NewHandler ==
    [pending_changes |-> {}, last_change_time |-> NoTime, processing |-> FALSE,
     observer |-> "wait", poller |-> "sleep", now |-> 0, events |-> 0,
     uncovered |-> {}]

\* no call made yet
NoCall == [op |-> "none"]

NoResult == [category |-> "none"]

NoInput == [case |-> "none"]

SetGraph(g) ==
    /\ nodes' = g.nodes
    /\ dependencies' = g.dependencies
    /\ dependents' = g.dependents
    /\ import_cache' = g.import_cache

GraphInit ==
    /\ nodes = << >>
    /\ dependencies = << >>
    /\ dependents = << >>
    /\ import_cache = << >>
    /\ ret = NoCall
    /\ state = default_state
    /\ watch = NewHandler
    /\ cc_in = NoInput
    /\ cc_out = NoResult

AddFile ==
    \E path \in Paths, imports \in ImportSets, language \in Languages :
        /\ SetGraph(add_file(TheGraph, path, imports, language))
        /\ ret' = [op |-> "add_file", path |-> path,
                   tracked |-> path \in Tracked(nodes)]
        /\ UNCHANGED <<classify_vars, state, watch>>

RemoveFile ==
    \E path \in Paths :
        /\ SetGraph(remove_file(TheGraph, path))
        /\ ret' = [op |-> "remove_file", path |-> path,
                   tracked |-> path \in Tracked(nodes)]
        /\ UNCHANGED <<classify_vars, state, watch>>

DetectCycles ==
    \E order \in Orderings(Tracked(nodes)) :
        /\ ret' = [op |-> "detect_cycles", value |-> detect_cycles(TheGraph, order)]
        /\ UNCHANGED <<nodes, dependencies, dependents, import_cache>>
        /\ UNCHANGED <<classify_vars, state, watch>>

TopologicalSort ==
    \E order \in Orderings(Tracked(nodes)) :
        /\ ret' = [op |-> "topological_sort",
                   value |-> topological_sort(TheGraph, order)]
        /\ UNCHANGED <<nodes, dependencies, dependents, import_cache>>
        /\ UNCHANGED <<classify_vars, state, watch>>

RoundTrip ==
    /\ ret' = [op |-> "from_dict", value |-> from_dict(to_dict(TheGraph))]
    /\ UNCHANGED <<nodes, dependencies, dependents, import_cache>>
    /\ UNCHANGED <<classify_vars, state, watch>>

\* add_file and remove_file in any order, and the save/load round trip
GraphNext == AddFile \/ RemoveFile \/ RoundTrip

GraphSpec == GraphInit /\ [][GraphNext]_vars

\* add_file and remove_file in any order, and the cycle and ordering queries
QueryNext == AddFile \/ RemoveFile \/ DetectCycles \/ TopologicalSort

QuerySpec == GraphInit /\ [][QueryNext]_vars

-----------------------------------------------------------------------------
(* The graph of javascript and typescript files *)

main_js == <<"main", ".", "js">>
x_ts == <<"x", ".", "ts">>
x_index_js == <<"x", "/", "index", ".", "js">>

\* the repository-relative paths handed to add_file and remove_file
JsPaths == {main_js, x_ts, x_index_js}

\* the import strings: "./x", "../x" and the package "react"
JsImportNames == { <<".", "/", "x">>, <<".", ".", "/", "x">>, <<"react">> }

\* the language tag of a path, by its extension as repo.get_language gives it
JsLanguage(path) == IF path[Len(path)] = "ts" THEN "typescript" ELSE "javascript"

JsImportSets == {S \in SUBSET JsImportNames : Cardinality(S) <= MaxImports}

JsAddFile ==
    \E path \in JsPaths, imports \in JsImportSets :
        /\ SetGraph(add_file(TheGraph, path, imports, JsLanguage(path)))
        /\ ret' = [op |-> "add_file", path |-> path,
                   tracked |-> path \in Tracked(nodes)]
        /\ UNCHANGED <<classify_vars, state, watch>>

JsRemoveFile ==
    \E path \in JsPaths :
        /\ SetGraph(remove_file(TheGraph, path))
        /\ ret' = [op |-> "remove_file", path |-> path,
                   tracked |-> path \in Tracked(nodes)]
        /\ UNCHANGED <<classify_vars, state, watch>>

JsNext == JsAddFile \/ JsRemoveFile

JsSpec == GraphInit /\ [][JsNext]_vars

-----------------------------------------------------------------------------
(* SemanticChangeAnalyzer.  A Definition is a record of name, type, line,   *)
(* is_public, parameters (a list of parameter strings) and return_type; a   *)
(* parameter string is one of "a", "a: T", "a=...", "a?" in tokens.  The    *)
(* description text of a result and the content hashes, which               *)
(* classify_change does not read, are left out.                             *)

\* the largest number of declarations in one snapshot
MaxDefs == 2

\* DefinitionChange.old_line / new_line when there is none (None)
NoLine == 0

DefinitionChange(name, definition_type, change_type, old_line, new_line, is_public) ==
    [name |-> name, definition_type |-> definition_type, change_type |-> change_type,
     old_line |-> old_line, new_line |-> new_line, is_public |-> is_public]

SemanticChangeResult(category, definition_changes, has_breaking, has_additions, has_removals) ==
    [category |-> category, definition_changes |-> definition_changes,
     has_breaking_changes |-> has_breaking, has_additions |-> has_additions,
     has_removals |-> has_removals]

\* one 'added' change per declaration, in order
AddedChanges(defs) ==
    [i \in DOMAIN defs |->
        DefinitionChange(defs[i].name, defs[i].type, "added", NoLine, defs[i].line,
                         defs[i].is_public)]

\* one 'removed' change per declaration, in order
RemovedChanges(defs) ==
    [i \in DOMAIN defs |->
        DefinitionChange(defs[i].name, defs[i].type, "removed", defs[i].line, NoLine,
                         defs[i].is_public)]

\* the creation result that leaves the private declarations out of the list
_classify_file_creation_public_only(definitions) ==
    SemanticChangeResult(
        "additive",
        AddedChanges(SelectSeq(definitions, LAMBDA d : d.is_public)),
        FALSE, TRUE, FALSE)

_classify_file_creation(definitions) ==
    SemanticChangeResult(
        "additive",
        AddedChanges(definitions),
        FALSE, TRUE, FALSE)

\* the deletion result that is breaking whenever the file declared anything
_classify_file_deletion_any(definitions) ==
    LET has_breaking == Len(definitions) > 0
    IN  SemanticChangeResult(
            IF has_breaking THEN "breaking" ELSE "internal",
            RemovedChanges(definitions),
            has_breaking, FALSE, TRUE)

_classify_file_deletion(definitions) ==
    LET public_defs  == SelectSeq(definitions, LAMBDA d : d.is_public)
        has_breaking == Len(public_defs) > 0
    IN  SemanticChangeResult(
            IF has_breaking THEN "breaking" ELSE "internal",
            RemovedChanges(definitions),
            has_breaking, FALSE, TRUE)

\* {d.name: d for d in defs} as its items: the names in the order of their first
\* declaration, each with the last declaration of that name
DefMap(defs) ==
    LET first == SelectSeq([i \in DOMAIN defs |-> i],
                           LAMBDA i : \A j \in 1..(i - 1) : defs[j].name # defs[i].name)
        last(n) == CHOOSE i \in DOMAIN defs :
                       defs[i].name = n /\ \A j \in (i + 1)..Len(defs) : defs[j].name # n
    IN  [k \in DOMAIN first |-> defs[last(defs[first[k]].name)]]

\* the keys of such a map
Names(items) == {items[i].name : i \in DOMAIN items}

\* d[name]
Lookup(items, name) == items[CHOOSE i \in DOMAIN items : items[i].name = name]

_is_definition_modified(old_def, new_def) ==
    IF old_def.type # new_def.type \/ old_def.is_public # new_def.is_public THEN TRUE
    ELSE IF old_def.type \in {"function", "method"}
         THEN \/ old_def.parameters # new_def.parameters
              \/ old_def.return_type # new_def.return_type
         ELSE FALSE

\* s.strip()
RECURSIVE Strip(_)
Strip(s) ==
    IF s # << >> /\ Head(s) = " " THEN Strip(Tail(s))
    ELSE IF s # << >> /\ s[Len(s)] = " " THEN Strip(SubSeq(s, 1, Len(s) - 1))
    ELSE s

\* s.rstrip(c)
RECURSIVE RStrip(_, _)
RStrip(s, c) ==
    IF s # << >> /\ s[Len(s)] = c THEN RStrip(SubSeq(s, 1, Len(s) - 1), c) ELSE s

\* c in s
Contains(s, c) == \E i \in DOMAIN s : s[i] = c

\* param.split(':')[0].split('=')[0].strip().rstrip('?')
ParamName(param) == RStrip(Strip(Split(Split(param, ":")[1], "=")[1]), "?")

\* param.split(':', 1)[1].split('=')[0].strip()
ParamType(param) ==
    LET k == IndexOf(param, ":")
    IN  Strip(Split(Drop(param, k), "=")[1])

\* the signature check without the test for dropped parameters
_is_signature_change_breaking_shared_only(old_def, new_def) ==
    IF old_def.type \notin {"function", "method"} THEN FALSE
    ELSE
    LET old_params == old_def.parameters
        new_params == new_def.parameters
        shared == IF Len(old_params) < Len(new_params)
                  THEN DOMAIN old_params ELSE DOMAIN new_params
    IN  IF \E i \in shared :
              \/ ParamName(old_params[i]) # ParamName(new_params[i])
              \/ /\ Contains(old_params[i], ":")
                 /\ Contains(new_params[i], ":")
                 /\ ParamType(old_params[i]) # ParamType(new_params[i])
        THEN TRUE
        ELSE /\ old_def.return_type # new_def.return_type
             /\ \/ (old_def.return_type = None) # (new_def.return_type = None)
                \/ (old_def.return_type # None /\ new_def.return_type # None)

_is_signature_change_breaking(old_def, new_def) ==
    IF old_def.type \notin {"function", "method"} THEN FALSE
    ELSE
    LET old_params == old_def.parameters
        new_params == new_def.parameters
        removed_params == Drop(old_params, Len(new_params))
        shared == IF Len(old_params) < Len(new_params)
                  THEN DOMAIN old_params ELSE DOMAIN new_params
    IN  IF /\ Len(new_params) < Len(old_params)
           /\ \E i \in DOMAIN removed_params : ~Contains(removed_params[i], "=")
        THEN TRUE
        ELSE IF \E i \in shared :
                   \/ ParamName(old_params[i]) # ParamName(new_params[i])
                   \/ /\ Contains(old_params[i], ":")
                      /\ Contains(new_params[i], ":")
                      /\ ParamType(old_params[i]) # ParamType(new_params[i])
        THEN TRUE
        ELSE /\ old_def.return_type # new_def.return_type
             /\ \/ (old_def.return_type = None) # (new_def.return_type = None)
                \/ (old_def.return_type # None /\ new_def.return_type # None)

\* the category rule that tests the additions before the removals
_determine_change_category_additions_first(added_public, removed_public, modified_public, breaking_signature_changes, all_changes) ==
    IF added_public # << >> THEN "additive"
    ELSE IF removed_public # << >> \/ breaking_signature_changes # << >>
    THEN "breaking"
    ELSE "internal"

_determine_change_category_with_signatures(added_public, removed_public, modified_public, breaking_signature_changes, all_changes) ==
    LET public_changes ==
            SelectSeq(all_changes,
                      LAMBDA c : c.is_public /\ c.change_type # "unchanged")
    IN  IF removed_public # << >> \/ breaking_signature_changes # << >>
        THEN "breaking"
        ELSE IF added_public # << >> /\ removed_public = << >>
                /\ modified_public = << >>
        THEN "additive"
        ELSE IF public_changes = << >>
        THEN "internal"
        ELSE IF modified_public # << >> /\ added_public = << >>
                /\ removed_public = << >>
        THEN "internal"
        ELSE IF added_public # << >> /\ modified_public # << >>
                /\ removed_public = << >>
        THEN "additive"
        ELSE "unknown"

\* the public modified declarations whose signature change is breaking
BreakingChanges(old_def_map, modified) ==
    SelectSeq(modified,
              LAMBDA d : /\ d.is_public
                         /\ _is_signature_change_breaking(Lookup(old_def_map, d.name), d))

\* one 'added' or 'modified' change per declaration of the new snapshot that
\* is new or differs from the old declaration of its name, in order
TouchedChanges(old_def_map, touched) ==
    [i \in DOMAIN touched |->
        IF touched[i].name \notin Names(old_def_map)
        THEN DefinitionChange(touched[i].name, touched[i].type, "added", NoLine,
                              touched[i].line, touched[i].is_public)
        ELSE DefinitionChange(touched[i].name, touched[i].type, "modified",
                              Lookup(old_def_map, touched[i].name).line,
                              touched[i].line, touched[i].is_public)]

\* the part of _classify_file_modification that diffs the declarations by name
DiffByName(old_definitions, new_definitions) ==
    LET old_def_map == DefMap(old_definitions)
        new_def_map == DefMap(new_definitions)
        removed  == SelectSeq(old_def_map, LAMBDA d : d.name \notin Names(new_def_map))
        added    == SelectSeq(new_def_map, LAMBDA d : d.name \notin Names(old_def_map))
        modified == SelectSeq(new_def_map,
                        LAMBDA d : /\ d.name \in Names(old_def_map)
                                   /\ _is_definition_modified(
                                          Lookup(old_def_map, d.name), d))
        touched  == SelectSeq(new_def_map,
                        LAMBDA d : d.name \notin Names(old_def_map)
                                   \/ _is_definition_modified(
                                          Lookup(old_def_map, d.name), d))
        def_changes ==
            RemovedChanges(removed)
            \o
            TouchedChanges(old_def_map, touched)
        added_public    == SelectSeq(added, LAMBDA d : d.is_public)
        removed_public  == SelectSeq(removed, LAMBDA d : d.is_public)
        modified_public == SelectSeq(modified, LAMBDA d : d.is_public)
        breaking_signature_changes == BreakingChanges(old_def_map, modified)
    IN  SemanticChangeResult(
            _determine_change_category_with_signatures(
                added_public, removed_public, modified_public,
                breaking_signature_changes, def_changes),
            def_changes,
            removed_public # << >> \/ breaking_signature_changes # << >>,
            added_public # << >>,
            removed_public # << >>)

\* the docs-only test of _classify_file_modification
SameStructure(old_ast_hash, new_ast_hash) ==
    old_ast_hash # None /\ new_ast_hash # None /\ old_ast_hash = new_ast_hash

_classify_file_modification(old_definitions, new_definitions, old_ast_hash, new_ast_hash) ==
    IF SameStructure(old_ast_hash, new_ast_hash)
    THEN SemanticChangeResult("docs-only", << >>, FALSE, FALSE, FALSE)
    ELSE DiffByName(old_definitions, new_definitions)

classify_change(old_definitions, new_definitions, old_ast_hash, new_ast_hash, file_exists_old, file_exists_new) ==
    IF ~file_exists_old /\ file_exists_new
    THEN _classify_file_creation(new_definitions)
    ELSE IF file_exists_old /\ ~file_exists_new
    THEN _classify_file_deletion(old_definitions)
    ELSE IF file_exists_old /\ file_exists_new
    THEN _classify_file_modification(old_definitions, new_definitions,
                                     old_ast_hash, new_ast_hash)
    ELSE SemanticChangeResult("unknown", << >>, FALSE, FALSE, FALSE)

-----------------------------------------------------------------------------
(* The inputs of classify_change *)

\* the parameter strings "a", "b" and "b=..."
ParamA == <<"a">>
ParamB == <<"b">>
ParamBDefault == <<"b", "=", "...">>

Function(name, is_public, parameters) ==
    [name |-> name, type |-> "function", line |-> Len(parameters) + 1,
     is_public |-> is_public, parameters |-> parameters, return_type |-> None]

\* the declarations a snapshot is made of: f(a, b), f(a) and f(a, b=...),
\* public or private, and the public class g
Declarations ==
    ( { Function("f", pub, ps) :
          pub \in BOOLEAN,
          ps \in { <<ParamA, ParamB>>, <<ParamA>>, <<ParamA, ParamBDefault>> } }
      \ { Function("f", FALSE, <<ParamA, ParamBDefault>>) } )
    \cup
    { [name |-> "g", type |-> "class", line |-> 9, is_public |-> TRUE,
       parameters |-> << >>, return_type |-> None] }

\* the snapshots: up to MaxDefs declarations, names may repeat
Snapshots == UNION { [1..n -> Declarations] : n \in 0..MaxDefs }

AstHash1 == <<"ast", ":", "h1">>
AstHash2 == <<"ast", ":", "h2">>
SourceHash1 == <<"source", ":", "h1">>

\* the old and new structural hash handed in when both versions exist
HashPairs ==
    { <<AstHash1, AstHash1>>, <<AstHash1, AstHash2>>, <<SourceHash1, SourceHash1>>,
      <<SourceHash1, AstHash1>>, <<None, None>>, <<None, AstHash1>> }

ClassifyInput(old_definitions, new_definitions, old_ast_hash, new_ast_hash, file_exists_old, file_exists_new) ==
    [old_definitions |-> old_definitions, new_definitions |-> new_definitions,
     old_ast_hash |-> old_ast_hash, new_ast_hash |-> new_ast_hash,
     file_exists_old |-> file_exists_old, file_exists_new |-> file_exists_new]

\* created, deleted, both missing and modified; a version that does not exist
\* has no declarations and no hash
ClassifyInputIs(input) ==
    \/ \E new \in Snapshots :
          input = ClassifyInput(<< >>, new, None, AstHash1, FALSE, TRUE)
    \/ \E old \in Snapshots :
          input = ClassifyInput(old, << >>, AstHash1, None, TRUE, FALSE)
    \/ input = ClassifyInput(<< >>, << >>, None, None, FALSE, FALSE)
    \/ \E old \in Snapshots, new \in Snapshots, h \in HashPairs :
          input = ClassifyInput(old, new, h[1], h[2], TRUE, TRUE)

ClassifyInit ==
    /\ ClassifyInputIs(cc_in)
    /\ cc_out = NoResult
    /\ nodes = << >>
    /\ dependencies = << >>
    /\ dependents = << >>
    /\ import_cache = << >>
    /\ ret = NoCall
    /\ state = default_state
    /\ watch = NewHandler

ClassifyChange ==
    /\ cc_out' = classify_change(cc_in.old_definitions, cc_in.new_definitions,
                                 cc_in.old_ast_hash, cc_in.new_ast_hash,
                                 cc_in.file_exists_old, cc_in.file_exists_new)
    /\ UNCHANGED <<cc_in, graph_vars, state, watch>>

ClassifyNext == ClassifyChange

ClassifySpec == ClassifyInit /\ [][ClassifyNext]_vars

-----------------------------------------------------------------------------
(* The inputs of _is_signature_change_breaking *)

MaxParams == 2

\* the parameter strings "a?", "a: int", "a: str" and
\* "b: Annotated[str, Query(max_length=50)]", an annotation with a "=" in it
ParamAOptional == <<"a", "?">>
ParamAInt == <<"a", ":", " ", "int">>
ParamAStr == <<"a", ":", " ", "str">>
ParamBAnnotated == <<"b", ":", " ", "Annotated[str, Query(max_length", "=", "50)]">>

ParamStrings ==
    {ParamA, ParamB, ParamAOptional, ParamAInt, ParamAStr, ParamBDefault, ParamBAnnotated}

ParamLists == UNION { [1..n -> ParamStrings] : n \in 0..MaxParams }

\* the old and the new return type
ReturnTypePairs ==
    { <<None, None>>, <<None, <<"int">> >>, << <<"int">>, None>>,
      << <<"int">>, <<"int">> >>, << <<"int">>, <<"str">> >> }

SignatureInput(old_params, new_params, returns) ==
    [old_def |-> [name |-> "f", type |-> "function", line |-> 1, is_public |-> TRUE,
                  parameters |-> old_params, return_type |-> returns[1]],
     new_def |-> [name |-> "f", type |-> "function", line |-> 1, is_public |-> TRUE,
                  parameters |-> new_params, return_type |-> returns[2]]]

SignatureInit ==
    /\ \E old_params \in ParamLists, new_params \in ParamLists, returns \in ReturnTypePairs :
          cc_in = SignatureInput(old_params, new_params, returns)
    /\ cc_out = NoResult
    /\ nodes = << >>
    /\ dependencies = << >>
    /\ dependents = << >>
    /\ import_cache = << >>
    /\ ret = NoCall
    /\ state = default_state
    /\ watch = NewHandler

SignatureChange ==
    /\ cc_out' = [breaking |-> _is_signature_change_breaking(cc_in.old_def, cc_in.new_def)]
    /\ UNCHANGED <<cc_in, graph_vars, state, watch>>

SignatureNext == SignatureChange

SignatureSpec == SignatureInit /\ [][SignatureNext]_vars

-----------------------------------------------------------------------------
(* analyze_import_impact *)

ChangeCategory == {"breaking", "additive", "internal", "docs-only", "unknown"}

\* the message of a dependent: its template, the file it names and whether
\* the description of the change follows
ImpactMessage(template, changed_file, described) ==
    [template |-> template, changed_file |-> changed_file, described |-> described]

\* dependent_files is the parameter dependents
analyze_import_impact(changed_file, change_result, dependent_files) ==
    IF dependent_files = {} THEN << >>
    ELSE IF change_result.category = "breaking"
    THEN [dependent \in dependent_files |->
             ImpactMessage("May be broken by changes in", changed_file, TRUE)]
    ELSE IF change_result.category = "additive"
    THEN [dependent \in dependent_files |->
             ImpactMessage("New APIs available from", changed_file, TRUE)]
    ELSE IF change_result.category = "internal"
    THEN [dependent \in dependent_files |->
             ImpactMessage("Internal changes in", changed_file, FALSE)]
    ELSE IF change_result.category = "docs-only"
    THEN [dependent \in dependent_files |->
             ImpactMessage("Documentation updated in", changed_file, FALSE)]
    ELSE << >>

ImpactInit ==
    /\ \E changed_file \in Paths, category \in ChangeCategory, dependent_files \in SUBSET Paths :
          cc_in = [changed_file |-> changed_file,
                   change_result |-> SemanticChangeResult(category, << >>,
                                         category = "breaking", FALSE, FALSE),
                   dependents |-> dependent_files]
    /\ cc_out = NoResult
    /\ nodes = << >>
    /\ dependencies = << >>
    /\ dependents = << >>
    /\ import_cache = << >>
    /\ ret = NoCall
    /\ state = default_state
    /\ watch = NewHandler

AnalyzeImportImpact ==
    /\ cc_out' = [impact |-> analyze_import_impact(cc_in.changed_file,
                                 cc_in.change_result, cc_in.dependents)]
    /\ UNCHANGED <<cc_in, graph_vars, state, watch>>

ImpactNext == AnalyzeImportImpact

ImpactSpec == ImpactInit /\ [][ImpactNext]_vars

-----------------------------------------------------------------------------
(* load_state *)

\* the values json.load can return: a JSON object is its members, a function
\* from keys to values; the other values are known by their type and by
\* whether Python takes them as true
JsonObject(members) == [type |-> "object", truthy |-> DOMAIN members # {}, members |-> members]

JsonOther == [type : {"null"}, truthy : {FALSE}] \cup [type : {"boolean", "number", "string", "array"}, truthy : BOOLEAN]

\* one stored snapshot, as a scan writes it
StoredSnapshot ==
    [hash |-> <<"h1">>, change_type |-> "added", language |-> "python",
     ast_hash |-> None, semantic_category |-> None, definitions |-> << >>, imports |-> {}]

StateKeys == {"version", "repo", "files", "dependency_graph"}

\* the JSON objects a state file may hold: any subset of the keys of a state
StateObjects ==
    { [k \in keys |-> full[k]] :
        keys \in SUBSET StateKeys,
        full \in [version : {"1.0", "1.1", "2.0"},
                  repo : {[name |-> <<"repo">>]},
                  files : {<< >>, [path \in {a_py} |-> StoredSnapshot]},
                  dependency_graph : {<< >>}] }

\* the state file: missing, unreadable, bytes that are no UTF-8 text, text
\* that is no JSON document (the empty text is one such), or a JSON value
StateFile(exists, readable, decodes, parses, text, value) ==
    [exists |-> exists, readable |-> readable, decodes |-> decodes,
     parses |-> parses, text |-> text, value |-> value]

Returned(value) == [raised |-> "none", value |-> value]

Raised(exception) == [raised |-> exception]

\* the 1.0 state brought to 1.1
Migrated(members) ==
    [k \in DOMAIN members \cup {"dependency_graph"} |->
        IF k = "version" THEN "1.1"
        ELSE IF k \in DOMAIN members THEN members[k] ELSE << >>]

load_state(file) ==
    IF ~file.exists THEN Returned(default_state)
    ELSE IF ~file.readable THEN Returned(default_state)
    ELSE IF ~file.decodes THEN Raised("UnicodeDecodeError")
    ELSE IF ~file.parses THEN Returned(default_state)
    ELSE IF ~file.value.truthy THEN Returned(default_state)
    ELSE IF file.value.type # "object" THEN Returned(default_state)
    ELSE IF "version" \notin DOMAIN file.value.members THEN Returned(default_state)
    ELSE IF ~({"version", "repo", "files"} \subseteq DOMAIN file.value.members)
    THEN Returned(default_state)
    ELSE IF file.value.members["version"] = "1.0"
    THEN Returned(Migrated(file.value.members))
    ELSE Returned(file.value.members)

LoadInputIs(file) ==
    \/ file = StateFile(FALSE, FALSE, FALSE, FALSE, "", JsonObject(<< >>))
    \/ file = StateFile(TRUE, FALSE, FALSE, FALSE, "", JsonObject(<< >>))
    \/ file = StateFile(TRUE, TRUE, FALSE, FALSE, "bytes", JsonObject(<< >>))
    \/ \E text \in {"", "{not json"} :
          file = StateFile(TRUE, TRUE, TRUE, FALSE, text, JsonObject(<< >>))
    \/ \E value \in JsonOther :
          file = StateFile(TRUE, TRUE, TRUE, TRUE, "json", value)
    \/ \E members \in StateObjects :
          file = StateFile(TRUE, TRUE, TRUE, TRUE, "json", JsonObject(members))

LoadInit ==
    /\ LoadInputIs(cc_in)
    /\ cc_out = NoResult
    /\ nodes = << >>
    /\ dependencies = << >>
    /\ dependents = << >>
    /\ import_cache = << >>
    /\ ret = NoCall
    /\ state = default_state
    /\ watch = NewHandler

LoadState ==
    /\ cc_out' = load_state(cc_in)
    /\ UNCHANGED <<cc_in, graph_vars, state, watch>>

LoadNext == LoadState

LoadSpec == LoadInit /\ [][LoadNext]_vars

-----------------------------------------------------------------------------
(* scan_repository and apply_scan_to_state *)

main_py == <<"main", ".", "py">>
util_py == <<"util", ".", "py">>

\* repo.get_source_files(): the source files of the repository, sorted
ScanPaths == <<main_py, util_py>>

\* a declaration as parse_file_ast lists it
Declared(name, line, is_public) ==
    [name |-> name, type |-> "function", line |-> line, is_public |-> is_public]

\* a file content: its content hash, whether it is UTF-8 text, and what the
\* parser finds in it
Content(hash, decodes, ast_hash, definitions, imports) ==
    [hash |-> hash, decodes |-> decodes, ast_hash |-> ast_hash,
     definitions |-> definitions, imports |-> imports]

\* "import util" and a public main()
SrcMain ==
    Content(<<"m1">>, TRUE, <<"ast", ":", "m1">>, <<Declared("main", 3, TRUE)>>, {<<"util">>})

\* a public f()
SrcF == Content(<<"u1">>, TRUE, <<"ast", ":", "u1">>, <<Declared("f", 1, TRUE)>>, {})

\* the same with a comment line on top
SrcFComment == Content(<<"u2">>, TRUE, <<"ast", ":", "u1">>, <<Declared("f", 2, TRUE)>>, {})

\* statements only, no declaration
SrcPlain == Content(<<"u3">>, TRUE, <<"ast", ":", "u3">>, << >>, {})

\* "import main" and a public f()
SrcImportsMain ==
    Content(<<"u4">>, TRUE, <<"ast", ":", "u4">>, <<Declared("f", 3, TRUE)>>, {<<"main">>})

\* bytes that are no UTF-8 text
SrcBinary == Content(<<"u5">>, FALSE, None, << >>, {})

\* a public f(), and a public g() with a nested f()
SrcFNested ==
    Content(<<"u6">>, TRUE, <<"ast", ":", "u6">>,
            <<Declared("f", 1, TRUE), Declared("g", 3, TRUE), Declared("f", 4, TRUE)>>, {})

\* the same without the outer f()
SrcNested ==
    Content(<<"u7">>, TRUE, <<"ast", ":", "u7">>,
            <<Declared("g", 1, TRUE), Declared("f", 2, TRUE)>>, {})

Contents ==
    {SrcMain, SrcF, SrcFComment, SrcPlain, SrcImportsMain, SrcBinary, SrcFNested, SrcNested}

\* a path of the repository: no such file, a file that cannot be read, or a
\* file with a content
NoFile == [present |-> FALSE]

Unreadable == [present |-> TRUE, readable |-> FALSE]

Readable(content) == [present |-> TRUE, readable |-> TRUE, content |-> content]

MainFiles == {NoFile, Unreadable, Readable(SrcMain)}

UtilFiles == {NoFile, Unreadable} \cup {Readable(content) : content \in Contents \ {SrcMain}}

\* the repositories a scan may find
Repositories ==
    {(main_py :> main) @@ (util_py :> util) : main \in MainFiles, util \in UtilFiles}

\* repo.get_language(path): by the extension
get_language(path) == IF path[Len(path)] = "py" THEN "python" ELSE None

\* parse_file_ast(file_path, language, ast_enabled=True): None and nothing
\* for a language without parser and for a file that cannot be parsed
parse_file_ast(content, language) ==
    IF language # "python" \/ ~content.decodes
    THEN [ast_hash |-> None, definitions |-> << >>, imports |-> {}]
    ELSE [ast_hash |-> content.ast_hash, definitions |-> content.definitions,
          imports |-> content.imports]

\* semantic_category = None: no category was computed
NoCategory == "None"

FileChange(path, change_type, old_hash, new_hash, old_ast_hash, new_ast_hash, semantic_category, language, definitions, imports) ==
    [path |-> path, change_type |-> change_type, old_hash |-> old_hash,
     new_hash |-> new_hash, old_ast_hash |-> old_ast_hash,
     new_ast_hash |-> new_ast_hash, semantic_category |-> semantic_category,
     language |-> language, definitions |-> definitions, imports |-> imports]

\* a or b
Or(a, b) == IF a # None THEN a ELSE b

\* to_dict that writes the hash the file had before the scan when there is one
FileChange_to_dict_old_hash(change) ==
    [hash |-> Or(change.old_hash, change.new_hash),
     change_type |-> change.change_type,
     language |-> change.language,
     ast_hash |-> Or(change.new_ast_hash, change.old_ast_hash),
     semantic_category |-> change.semantic_category,
     definitions |-> change.definitions,
     imports |-> change.imports]

\* FileChange.to_dict(): a key the code leaves out is None or empty here, as
\* dict.get reads it; last_modified, the time of the scan, is left out
FileChange_to_dict(change) ==
    [hash |-> Or(change.new_hash, change.old_hash),
     change_type |-> change.change_type,
     language |-> change.language,
     ast_hash |-> Or(change.new_ast_hash, change.old_ast_hash),
     semantic_category |-> change.semantic_category,
     definitions |-> change.definitions,
     imports |-> change.imports]

\* [Definition(name, type, line, is_public) for d in definitions]
Definitions(definitions) ==
    [i \in DOMAIN definitions |->
        [name |-> definitions[i].name, type |-> definitions[i].type,
         line |-> definitions[i].line, is_public |-> definitions[i].is_public,
         parameters |-> << >>, return_type |-> None]]

AddedChange(path, new_hash, language, parsed) ==
    FileChange(path, "added", None, new_hash, None, parsed.ast_hash,
        IF parsed.ast_hash # None
        THEN classify_change(<< >>, Definitions(parsed.definitions), None,
                             parsed.ast_hash, FALSE, TRUE).category
        ELSE NoCategory,
        language, parsed.definitions, parsed.imports)

ModifiedCategory(old_info, parsed) ==
    classify_change(Definitions(old_info.definitions), Definitions(parsed.definitions),
                    old_info.ast_hash, parsed.ast_hash, TRUE, TRUE).category

ModifiedChange(path, old_info, new_hash, language, parsed) ==
    FileChange(path, "modified", old_info.hash, new_hash, old_info.ast_hash,
        parsed.ast_hash,
        IF parsed.ast_hash # None THEN ModifiedCategory(old_info, parsed) ELSE NoCategory,
        language, parsed.definitions, parsed.imports)

UnchangedChange(path, old_info, new_hash, language, parsed) ==
    IF parsed.ast_hash # None /\ old_info.ast_hash = None
    THEN FileChange(path, "unchanged", old_info.hash, new_hash, old_info.ast_hash,
                    parsed.ast_hash, NoCategory, language, parsed.definitions, parsed.imports)
    ELSE FileChange(path, "unchanged", old_info.hash, new_hash, old_info.ast_hash,
                    old_info.ast_hash, NoCategory, language, old_info.definitions,
                    old_info.imports)

DeletedChange(old_path, old_info) ==
    FileChange(old_path, "deleted", old_info.hash, None, old_info.ast_hash, None,
        IF old_info.definitions # << >>
        THEN classify_change(Definitions(old_info.definitions), << >>,
                             old_info.ast_hash, None, TRUE, FALSE).category
        ELSE NoCategory,
        old_info.language, old_info.definitions, old_info.imports)

\* the change recorded for a file whose content hash could be computed
CurrentChange(path, content, previous_files) ==
    LET language == get_language(path)
        parsed == parse_file_ast(content, language)
    IN  IF path \notin DOMAIN previous_files
        THEN AddedChange(path, content.hash, language, parsed)
        ELSE IF previous_files[path].hash # content.hash
        THEN ModifiedChange(path, previous_files[path], content.hash, language, parsed)
        ELSE UnchangedChange(path, previous_files[path], content.hash, language, parsed)

\* the graph after the files of `paths` with a computable hash and a
\* non-empty import list have been added in order
RECURSIVE ScanGraph(_, _, _)
ScanGraph(g, paths, source_files) ==
    IF paths = << >> THEN g
    ELSE LET path == Head(paths)
             file == source_files[path]
             language == get_language(path)
             parsed == parse_file_ast(file.content, language)
         IN  IF file.present /\ file.readable /\ parsed.imports # {}
             THEN ScanGraph(add_file(g, path, parsed.imports, language),
                            Tail(paths), source_files)
             ELSE ScanGraph(g, Tail(paths), source_files)

\* the paths whose content hash fails too
CurrentPathsHashed(source_files) ==
    {path \in DOMAIN source_files :
        source_files[path].present /\ source_files[path].readable}

\* current_paths: every discovered path, readable or not
CurrentPaths(source_files) ==
    {path \in DOMAIN source_files : source_files[path].present}

ScanResult(files, added, modified, deleted, unchanged, dependency_graph) ==
    [files |-> files, added |-> added, modified |-> modified, deleted |-> deleted,
     unchanged |-> unchanged, dependency_graph |-> dependency_graph]

\* the list a path of the repository or of the previous state goes to, "" for
\* a file whose hash cannot be computed
ChangeType(path, source_files, previous_files) ==
    IF ~source_files[path].present
    THEN IF path \in DOMAIN previous_files THEN "deleted" ELSE ""
    ELSE IF ~source_files[path].readable THEN ""
    ELSE IF path \notin DOMAIN previous_files THEN "added"
    ELSE IF previous_files[path].hash # source_files[path].content.hash THEN "modified"
    ELSE "unchanged"

\* the paths of one list, in the order the scan appends them
ListOf(change_type, source_files, previous_files) ==
    SelectSeq(ScanPaths, LAMBDA path :
        ChangeType(path, source_files, previous_files) = change_type)

scan_repository(source_files, previous_state) ==
    LET previous_files == previous_state.files
        current_paths == CurrentPaths(source_files)
        hashed == {path \in current_paths : source_files[path].readable}
        gone == DOMAIN previous_files \ current_paths
    IN  ScanResult(
            [path \in hashed \cup gone |->
                IF path \in hashed
                THEN CurrentChange(path, source_files[path].content, previous_files)
                ELSE DeletedChange(path, previous_files[path])],
            ListOf("added", source_files, previous_files),
            ListOf("modified", source_files, previous_files),
            SelectSeq(ScanPaths, LAMBDA path : path \in gone),
            ListOf("unchanged", source_files, previous_files),
            ScanGraph(EmptyGraph, ScanPaths, source_files))

\* repo.to_dict(), as far as the state keeps it
RepoDict == [name |-> <<"repo">>]

\* apply_scan_to_state(state, scan_result, repo), the call of the scan
\* command: no dependency graph is handed in
apply_scan_to_state(st, scan_result) ==
    LET kept == {path \in DOMAIN scan_result.files :
                    scan_result.files[path].change_type # "deleted"}
    IN  [version |-> IF st.version = "1.0" THEN "1.1" ELSE st.version,
         repo |-> RepoDict,
         files |-> [path \in kept |-> FileChange_to_dict(scan_result.files[path])],
         dependency_graph |-> st.dependency_graph]

ScanInit ==
    /\ state = default_state
    /\ watch = NewHandler
    /\ nodes = << >>
    /\ dependencies = << >>
    /\ dependents = << >>
    /\ import_cache = << >>
    /\ ret = NoCall
    /\ cc_in = NoInput
    /\ cc_out = NoResult

\* the scan command on the repository it finds: scan_repository on the loaded
\* state, apply_scan_to_state, save_state
Scan ==
    \E source_files \in Repositories :
        \E scan_result \in {scan_repository(source_files, state)} :
            /\ state' = apply_scan_to_state(state, scan_result)
            /\ SetGraph(scan_result.dependency_graph)
            /\ ret' = [op |-> "scan", source_files |-> source_files,
                       previous_files |-> state.files,
                       files |-> scan_result.files,
                       added |-> scan_result.added,
                       modified |-> scan_result.modified,
                       deleted |-> scan_result.deleted,
                       unchanged |-> scan_result.unchanged]
            /\ UNCHANGED <<classify_vars, watch>>

ScanNext == Scan

ScanSpec == ScanInit /\ [][ScanNext]_vars

-----------------------------------------------------------------------------
(* The scan of watch mode: apply_scan_to_state with the graph of the scan *)

\* bool(dependency_graph): __len__ makes a graph without tracked file false
Truthy(dependency_graph) == Len(dependency_graph.nodes) > 0

\* apply_scan_to_state(state, scan_result, repo, dependency_graph)
apply_scan_to_state_with_graph(st, scan_result, dependency_graph) ==
    [apply_scan_to_state(st, scan_result) EXCEPT
        !.dependency_graph = IF Truthy(dependency_graph)
                             THEN to_dict(dependency_graph) ELSE @]

\* load_state, scan_repository, apply_scan_to_state with
\* scan_result.dependency_graph, save_state on the repository found
ScanAndSave(source_files) ==
    \E scan_result \in {scan_repository(source_files, state)} :
        /\ state' = apply_scan_to_state_with_graph(state, scan_result,
                                                   scan_result.dependency_graph)
        /\ SetGraph(scan_result.dependency_graph)
        /\ ret' = [op |-> "watch_scan", source_files |-> source_files,
                   previous_files |-> state.files,
                   files |-> scan_result.files,
                   added |-> scan_result.added,
                   modified |-> scan_result.modified,
                   deleted |-> scan_result.deleted,
                   unchanged |-> scan_result.unchanged]
        /\ UNCHANGED classify_vars

\* the scan of process_pending_changes on any repository
WatchScan ==
    \E source_files \in Repositories :
        ScanAndSave(source_files) /\ UNCHANGED watch

WatchScanNext == WatchScan

WatchScanSpec == ScanInit /\ [][WatchScanNext]_vars

-----------------------------------------------------------------------------
(* Watch mode: the observer thread calls on_any_event, the polling loop of  *)
(* watch() calls process_pending_changes.  Each thread takes one statement  *)
(* on the handler's fields at a time.                                       *)

\* the file events the observer delivers
MaxEvents == 2

\* the clock readings time.time() gives
MaxTime == 2

\* debounce_seconds
DebounceSeconds == 1

\* the paths of the repository whose events should_process_path accepts
WatchedPaths == {main_py, util_py}

\* what the scans of watch mode find on disk
WatchedRepositories ==
    {(main_py :> Readable(SrcMain)) @@ (util_py :> Readable(content)) :
        content \in {SrcF, SrcPlain}}

\* time passes
Tick ==
    /\ watch.now < MaxTime
    /\ watch' = [watch EXCEPT !.now = @ + 1]
    /\ UNCHANGED <<graph_vars, classify_vars, state>>

\* on_any_event for a directory event or a path should_process_path
\* rejects: it returns at once
OnIgnoredEvent ==
    /\ watch.observer = "wait"
    /\ watch.events < MaxEvents
    /\ watch' = [watch EXCEPT !.events = @ + 1]
    /\ UNCHANGED <<graph_vars, classify_vars, state>>

\* on_any_event for a file event on a processable path, first statement:
\* self.pending_changes.add(event.src_path)
OnAnyEvent ==
    \E src_path \in WatchedPaths :
        /\ watch.observer = "wait"
        /\ watch.events < MaxEvents
        /\ watch' = [watch EXCEPT !.events = @ + 1,
                                  !.pending_changes = @ \cup {src_path},
                                  !.uncovered = @ \cup {src_path},
                                  !.observer = "stamp"]
        /\ UNCHANGED <<graph_vars, classify_vars, state>>

\* on_any_event, second statement: self.last_change_time = time.time()
StampEvent ==
    /\ watch.observer = "stamp"
    /\ watch' = [watch EXCEPT !.last_change_time = watch.now, !.observer = "wait"]
    /\ UNCHANGED <<graph_vars, classify_vars, state>>

\* time.sleep(interval) is over: the loop calls process_pending_changes
Wake ==
    /\ watch.poller = "sleep"
    /\ watch' = [watch EXCEPT !.poller = "check"]
    /\ UNCHANGED <<graph_vars, classify_vars, state>>

\* the tests at the head of process_pending_changes
MayProcess ==
    /\ watch.pending_changes # {}
    /\ watch.last_change_time # NoTime
    /\ watch.now - watch.last_change_time >= DebounceSeconds
    /\ ~watch.processing

\* process_pending_changes returns False: nothing pending, no change time,
\* debounce period not over, or a run in progress
ReturnEarly ==
    /\ watch.poller = "check"
    /\ ~MayProcess
    /\ watch' = [watch EXCEPT !.poller = "sleep"]
    /\ UNCHANGED <<graph_vars, classify_vars, state>>

\* self.processing = True
BeginProcessing ==
    /\ watch.poller = "check"
    /\ MayProcess
    /\ watch' = [watch EXCEPT !.processing = TRUE, !.poller = "scan"]
    /\ UNCHANGED <<graph_vars, classify_vars, state>>

\* the scan of the run, from load_state to save_state: it starts now, so it
\* covers every event recorded so far
RunScan ==
    \E source_files \in WatchedRepositories :
        /\ watch.poller = "scan"
        /\ ScanAndSave(source_files)
        /\ watch' = [watch EXCEPT !.uncovered = {}, !.poller = "clear_pending"]

\* the scan raises: the except branch returns False, finally clears processing
FailScan ==
    /\ watch.poller = "scan"
    /\ watch' = [watch EXCEPT !.poller = "finally"]
    /\ UNCHANGED <<graph_vars, classify_vars, state>>

\* self.pending_changes.clear()
ClearPending ==
    /\ watch.poller = "clear_pending"
    /\ watch' = [watch EXCEPT !.pending_changes = {}, !.poller = "clear_time"]
    /\ UNCHANGED <<graph_vars, classify_vars, state>>

\* self.last_change_time = None
ClearTime ==
    /\ watch.poller = "clear_time"
    /\ watch' = [watch EXCEPT !.last_change_time = NoTime, !.poller = "finally"]
    /\ UNCHANGED <<graph_vars, classify_vars, state>>

\* finally: self.processing = False; back to time.sleep(interval)
EndProcessing ==
    /\ watch.poller = "finally"
    /\ watch' = [watch EXCEPT !.processing = FALSE, !.poller = "sleep"]
    /\ UNCHANGED <<graph_vars, classify_vars, state>>

WatchNext ==
    \/ Tick \/ OnIgnoredEvent \/ OnAnyEvent \/ StampEvent
    \/ Wake \/ ReturnEarly \/ BeginProcessing \/ RunScan \/ FailScan
    \/ ClearPending \/ ClearTime \/ EndProcessing

WatchSpec == ScanInit /\ [][WatchNext]_vars

-----------------------------------------------------------------------------
(* Properties of the dependency graph *)

\* the members of a sequence
Elems(s) == {s[i] : i \in DOMAIN s}

\* every path that owns a non-empty set of d, or is a member of one
Occurring(d) ==
    {q \in DOMAIN d : d[q] # {}} \cup UNION {d[q] : q \in DOMAIN d}

\* C1: every path that occurs in a forward dependency set or a reverse
\* dependent set, as the owner of a non-empty set or as a member, is a tracked
\* path: no import ever adds an edge to or from an untracked path.
C1_EdgeEndpointsTracked ==
    /\ Occurring(dependencies) \subseteq Tracked(nodes)
    /\ Occurring(dependents) \subseteq Tracked(nodes)

\* a tracked path was removed while another file keeps an import that now
\* resolves to nothing, and an edge is left in the graph
C1_Witness ==
    /\ ret.op = "remove_file" /\ ret.tracked
    /\ \E i \in DOMAIN nodes :
          /\ nodes[i].imports # {}
          /\ get_dependencies(TheGraph, nodes[i].path) = {}
    /\ Occurring(dependencies) # {}

\* C2: from_dict(to_dict(g)) answers get_dependencies and get_dependents as g
\* does, for every tracked path.
C2_RoundTrip ==
    ret.op = "from_dict" =>
        \A p \in Tracked(nodes) :
            /\ get_dependencies(ret.value, p) = get_dependencies(TheGraph, p)
            /\ get_dependents(ret.value, p) = get_dependents(TheGraph, p)

\* C3: remove_file(p) on a tracked p leaves p untracked, in no adjacency set as
\* owner or member, and in no cache entry as source or as resolved value;
\* remove_file on an untracked path changes nothing.
C3_RemoveFile ==
    [][ret'.op = "remove_file" =>
        LET p == ret'.path
        IN  IF p \in Tracked(nodes)
            THEN /\ p \notin Tracked(nodes')
                 /\ p \notin DOMAIN dependencies'
                 /\ p \notin DOMAIN dependents'
                 /\ \A q \in DOMAIN dependencies' : p \notin dependencies'[q]
                 /\ \A q \in DOMAIN dependents' : p \notin dependents'[q]
                 /\ \A k \in DOMAIN import_cache' :
                        k[1] # p /\ import_cache'[k] # p
            ELSE UNCHANGED <<nodes, dependencies, dependents, import_cache>>]_vars

\* a tracked path was removed, and the cache and the graph still hold entries
\* of the other files
C3_Witness ==
    /\ ret.op = "remove_file" /\ ret.tracked
    /\ DOMAIN import_cache # {}
    /\ Occurring(dependencies) # {}

\* the paths other than p that have p among their dependencies
Importers(g, p) == {q \in Paths \ {p} : p \in get_dependencies(g, q)}

\* C4: add_file on an already tracked path p leaves get_dependencies(q)
\* unchanged for every other path q, and leaves the set of other paths that
\* have p among their dependencies unchanged.
C4_ReAddFrame ==
    [][(ret'.op = "add_file" /\ ret'.path \in Tracked(nodes)) =>
        LET p  == ret'.path
            g1 == Graph(nodes', dependencies', dependents', import_cache')
        IN  /\ \A q \in Paths \ {p} :
                   get_dependencies(g1, q) = get_dependencies(TheGraph, q)
            /\ Importers(g1, p) = Importers(TheGraph, p)]_vars

\* a tracked path that another file imports was added again, with an import
\* that resolved
C4_Witness ==
    /\ ret.op = "add_file" /\ ret.tracked
    /\ Importers(TheGraph, ret.path) # {}
    /\ get_dependencies(TheGraph, ret.path) # {}

RECURSIVE ReachableIn(_, _, _)
\* the paths reached from the set S by one to n imports
ReachableIn(g, S, n) ==
    IF n = 0 THEN {}
    ELSE LET next == UNION {get_dependencies(g, p) : p \in S}
         IN  next \cup ReachableIn(g, next, n - 1)

\* some tracked file reaches itself along imports
HasCycle(g) ==
    \E p \in Tracked(g.nodes) : p \in ReachableIn(g, {p}, Len(g.nodes))

\* A imports only B, B imports only C, C imports only A
ThreeCycle(g, A, B, C) ==
    /\ {A, B, C} \subseteq Tracked(g.nodes)
    /\ A # B /\ B # C /\ A # C
    /\ get_dependencies(g, A) = {B}
    /\ get_dependencies(g, B) = {C}
    /\ get_dependencies(g, C) = {A}

\* C5: detect_cycles returns at least one cycle exactly when the tracked graph
\* has a directed import cycle (a self-import included); when A imports B, B
\* imports C and C imports A, some returned cycle contains A, B and C.
C5_DetectCycles ==
    ret.op = "detect_cycles" =>
        /\ (ret.value # << >>) <=> HasCycle(TheGraph)
        /\ \A A, B, C \in Paths :
               ThreeCycle(TheGraph, A, B, C) =>
                   \E i \in DOMAIN ret.value : {A, B, C} \subseteq Elems(ret.value[i])

\* detect_cycles has run on the cycle of three files
C5_Witness ==
    /\ ret.op = "detect_cycles"
    /\ \E A, B, C \in Paths : ThreeCycle(TheGraph, A, B, C)
    /\ ret.value # << >>

\* detect_cycles has run on a graph with an edge and no cycle
C5_WitnessAcyclic ==
    /\ ret.op = "detect_cycles"
    /\ Occurring(dependencies) # {}
    /\ ret.value = << >>

\* q comes before p in the list
Before(list, q, p) ==
    \E i, j \in DOMAIN list : list[i] = q /\ list[j] = p /\ i < j

\* C6: on an acyclic graph topological_sort places every file after all the
\* tracked files it imports; for the two files A and B, A importing B and B
\* importing nothing, the result is [B, A].
C6_TopologicalSort ==
    (ret.op = "topological_sort" /\ ~HasCycle(TheGraph)) =>
        /\ \A p \in Tracked(nodes) :
               \A q \in get_dependencies(TheGraph, p) \cap Tracked(nodes) :
                   Before(ret.value, q, p)
        /\ \A A, B \in Paths :
               ( /\ Tracked(nodes) = {A, B} /\ A # B
                 /\ get_dependencies(TheGraph, A) = {B}
                 /\ get_dependencies(TheGraph, B) = {} )
               => ret.value = <<B, A>>

\* topological_sort has run on a chain of three files
C6_Witness ==
    /\ ret.op = "topological_sort" /\ ~HasCycle(TheGraph)
    /\ \E A, B, C \in Tracked(nodes) :
          /\ A # C
          /\ B \in get_dependencies(TheGraph, A)
          /\ C \in get_dependencies(TheGraph, B)
    /\ Len(ret.value) = Cardinality(Paths)

-----------------------------------------------------------------------------
(* Properties of classify_change *)

\* classify_change has returned
Classified == cc_out # NoResult

Created == ~cc_in.file_exists_old /\ cc_in.file_exists_new

Deleted == cc_in.file_exists_old /\ ~cc_in.file_exists_new

Modified == cc_in.file_exists_old /\ cc_in.file_exists_new

\* the list of changes records every declaration of defs, in order, as `kind`
RecordsAll(changes, defs, kind) ==
    /\ Len(changes) = Len(defs)
    /\ \A i \in DOMAIN defs :
          /\ changes[i].name = defs[i].name
          /\ changes[i].definition_type = defs[i].type
          /\ changes[i].is_public = defs[i].is_public
          /\ changes[i].change_type = kind

\* C7: for a created file the category is Additive and the changes are
\* exactly one 'added' change per new declaration, in declaration order,
\* whatever their visibility and also when there is no declaration.
C7_Created ==
    (Classified /\ Created) =>
        /\ cc_out.category = "additive"
        /\ RecordsAll(cc_out.definition_changes, cc_in.new_definitions, "added")

\* a created file with a private and a public declaration has been classified
C7_Witness ==
    /\ Classified /\ Created
    /\ \E i, j \in DOMAIN cc_in.new_definitions :
          cc_in.new_definitions[i].is_public /\ ~cc_in.new_definitions[j].is_public

\* a created file that declares nothing has been classified
C7_WitnessEmpty ==
    Classified /\ Created /\ cc_in.new_definitions = << >>

\* C8: for a deleted file the category is Breaking if at least one old
\* declaration is public and Internal otherwise, every old declaration is
\* recorded as 'removed', and has_removals is true.
C8_Deleted ==
    (Classified /\ Deleted) =>
        /\ cc_out.category =
              IF \E i \in DOMAIN cc_in.old_definitions :
                     cc_in.old_definitions[i].is_public
              THEN "breaking" ELSE "internal"
        /\ RecordsAll(cc_out.definition_changes, cc_in.old_definitions, "removed")
        /\ cc_out.has_removals

\* a deleted file with private declarations only has been classified
C8_Witness ==
    /\ Classified /\ Deleted
    /\ cc_in.old_definitions # << >>
    /\ \A i \in DOMAIN cc_in.old_definitions : ~cc_in.old_definitions[i].is_public

\* the hash is tagged ast:
IsAstHash(h) == StartsWith(h, <<"ast", ":">>)

\* C9: in the Modified case the result is DocsOnly with no definition change
\* exactly when the two structural hashes are equal and both tagged ast:; in
\* every other case the declarations are diffed by name.
C9_DocsOnlyIffEqualAstHashes ==
    (Classified /\ Modified) =>
        IF /\ cc_in.old_ast_hash = cc_in.new_ast_hash
           /\ IsAstHash(cc_in.old_ast_hash) /\ IsAstHash(cc_in.new_ast_hash)
        THEN cc_out.category = "docs-only" /\ cc_out.definition_changes = << >>
        ELSE /\ cc_out.category # "docs-only"
             /\ cc_out = DiffByName(cc_in.old_definitions, cc_in.new_definitions)

\* the parameter string is the encoding of a parameter without default
NoDefault(param) == ~Contains(param, "=")

\* o lost trailing parameters on the way to n, one of them without default
DroppedRequired(o, n) ==
    /\ o.type \in {"function", "method"} /\ n.type \in {"function", "method"}
    /\ Len(n.parameters) < Len(o.parameters)
    /\ \E i \in (Len(n.parameters) + 1)..Len(o.parameters) : NoDefault(o.parameters[i])

PublicDroppedRequired ==
    LET old_def_map == DefMap(cc_in.old_definitions)
        new_def_map == DefMap(cc_in.new_definitions)
    IN  \E name \in Names(old_def_map) \cap Names(new_def_map) :
            /\ Lookup(new_def_map, name).is_public
            /\ DroppedRequired(Lookup(old_def_map, name), Lookup(new_def_map, name))

FirstMatch(removal, breaking, addition, modification) ==
    IF removal \/ breaking THEN "breaking"
    ELSE IF addition /\ ~removal /\ ~modification THEN "additive"
    ELSE IF ~removal /\ ~addition /\ ~modification THEN "internal"
    ELSE IF modification /\ ~breaking /\ ~addition /\ ~removal THEN "internal"
    ELSE IF addition /\ modification /\ ~removal THEN "additive"
    ELSE "unknown"

\* the names a snapshot declares
DeclaredNames(defs) == {defs[i].name : i \in DOMAIN defs}

C11_WitnessMixed ==
    /\ Classified /\ Modified /\ cc_in.old_ast_hash # cc_in.new_ast_hash
    /\ cc_out.has_additions /\ ~cc_out.has_breaking_changes
    /\ \E i \in DOMAIN cc_out.definition_changes :
          /\ cc_out.definition_changes[i].change_type = "modified"
          /\ cc_out.definition_changes[i].is_public
    /\ cc_out.category = "additive"

-----------------------------------------------------------------------------
(* Properties of _is_signature_change_breaking *)

\* the parameter's string has the shape name=...
HasDefault(param) == Len(param) = 3 /\ param[2] = "=" /\ param[3] = "..."

\* the parameter's string has the shape name: Type
HasAnnotation(param) == Len(param) > 3 /\ param[2] = ":"

\* the Type of a string of the shape name: Type
Annotation(param) == SubSeq(param, 4, Len(param))

\* C20: for two function declarations of one name the check is true exactly
\* when the parameter count decreased and a dropped trailing parameter has no
\* default, or a parameter name differs at a shared position, or a parameter
\* is annotated on both sides with different types, or the return type
\* appeared, disappeared or is present on both sides and different.
C20_SignatureRules ==
    cc_out # NoResult =>
        LET old_params == cc_in.old_def.parameters
            new_params == cc_in.new_def.parameters
            old_return == cc_in.old_def.return_type
            new_return == cc_in.new_def.return_type
            shared == DOMAIN old_params \cap DOMAIN new_params
            dropped == /\ Len(new_params) < Len(old_params)
                       /\ \E i \in (Len(new_params) + 1)..Len(old_params) :
                             ~HasDefault(old_params[i])
            renamed == \E i \in shared : Head(old_params[i]) # Head(new_params[i])
            retyped == \E i \in shared :
                           /\ HasAnnotation(old_params[i]) /\ HasAnnotation(new_params[i])
                           /\ Annotation(old_params[i]) # Annotation(new_params[i])
            returns == \/ (old_return = None) # (new_return = None)
                       \/ old_return # None /\ new_return # None /\ old_return # new_return
        IN  cc_out.breaking = (dropped \/ renamed \/ retyped \/ returns)

-----------------------------------------------------------------------------
(* Properties of analyze_import_impact *)

\* C14: for every category the returned map has exactly the given dependents
\* as its keys, and for category Breaking every message says that the
\* dependent may be broken by the changed file.
C14_ImpactPerDependent ==
    cc_out # NoResult =>
        /\ DOMAIN cc_out.impact = cc_in.dependents
        /\ cc_in.change_result.category = "breaking" =>
              \A dependent \in cc_in.dependents :
                  /\ cc_out.impact[dependent].template = "May be broken by changes in"
                  /\ cc_out.impact[dependent].changed_file = cc_in.changed_file

-----------------------------------------------------------------------------
(* Properties of load_state *)

\* the state file is missing, empty, no valid JSON, no JSON object, or an
\* object without one of the keys version, repo and files
Unusable(file) ==
    \/ ~file.exists
    \/ file.exists /\ file.readable /\
         \/ ~file.decodes
         \/ ~file.parses
         \/ file.value.type # "object"
         \/ ~({"version", "repo", "files"} \subseteq DOMAIN file.value.members)

\* C18: whenever the state file is missing, empty, not valid JSON, not a JSON
\* object or lacks one of the keys version, repo and files, load_state
\* returns the default empty state and raises nothing.
C18_LoadFailsSafe ==
    (cc_out # NoResult /\ Unusable(cc_in)) => cc_out = Returned(default_state)

-----------------------------------------------------------------------------
(* Properties of scan_repository and apply_scan_to_state *)

\* a scan has run
Scanned == ret.op = "scan"

\* the scan computed the content hash of the file at `path`
Hashed(path) ==
    /\ ret.source_files[path].present
    /\ ret.source_files[path].readable

\* the previous scan recorded `path`
Recorded(path) == path \in DOMAIN ret.previous_files

\* the members of a path list
Listed(paths) == {paths[i] : i \in DOMAIN paths}

\* C12: after a scan of a repository in which main.py imports util and both
\* main.py and util.py are tracked by the scan, the dependency graph of the
\* result gives get_dependents("util.py") = {"main.py"}
C12_DependentsOfImported ==
    (/\ Scanned
     /\ Hashed(main_py) /\ ret.source_files[main_py].content = SrcMain
     /\ Hashed(util_py)
     /\ {main_py, util_py} \subseteq DOMAIN state.files)
    => Get(dependents, util_py) = {main_py}

\* how many public functions called `name` a declaration list has
PublicFunctions(definitions, name) ==
    Cardinality({i \in DOMAIN definitions :
        /\ definitions[i].name = name
        /\ definitions[i].is_public
        /\ definitions[i].type = "function"})

\* the file at `path`, recorded with a public function by the previous scan,
\* has lost that function and still parses
PublicFunctionRemoved(path) ==
    /\ Scanned /\ Recorded(path) /\ Hashed(path)
    /\ ret.source_files[path].content.decodes
    /\ ret.source_files[path].content.hash # ret.previous_files[path].hash
    /\ \E name \in {"f", "g", "main"} :
          PublicFunctions(ret.previous_files[path].definitions, name)
            > PublicFunctions(ret.source_files[path].content.definitions, name)

\* C13: a file recorded with a public function that has lost the function and
\* still parses is listed in modified with the category breaking
C13_RemovedPublicFunctionBreaks ==
    \A path \in {main_py, util_py} :
        PublicFunctionRemoved(path) =>
            /\ path \in Listed(ret.modified)
            /\ ret.files[path].semantic_category = "breaking"
            /\ state.files[path].semantic_category = "breaking"

\* no path twice in the list
NoRepeat(paths) ==
    \A i, j \in DOMAIN paths : paths[i] = paths[j] => i = j

\* the stored content hash of `path` is the hash of the content found
SameHash(path) == ret.previous_files[path].hash = ret.source_files[path].content.hash

\* C15: the lists added, modified, deleted and unchanged of a ScanResult are
\* pairwise disjoint; a discovered readable path is in exactly one of added
\* (not in the previous state), modified (stored hash differs) and unchanged
\* (stored hash equal); deleted holds exactly the previously tracked paths
\* that were not discovered; the keys of files are the union of the lists
C15_Partition ==
    Scanned =>
        LET added == Listed(ret.added)
            modified == Listed(ret.modified)
            deleted == Listed(ret.deleted)
            unchanged == Listed(ret.unchanged)
            discovered == {path \in DOMAIN ret.source_files :
                              ret.source_files[path].present}
        IN  /\ NoRepeat(ret.added) /\ NoRepeat(ret.modified)
            /\ NoRepeat(ret.deleted) /\ NoRepeat(ret.unchanged)
            /\ added \cap modified = {} /\ added \cap deleted = {}
            /\ added \cap unchanged = {} /\ modified \cap deleted = {}
            /\ modified \cap unchanged = {} /\ deleted \cap unchanged = {}
            /\ \A path \in discovered :
                  Hashed(path) =>
                    /\ path \in added <=> ~Recorded(path)
                    /\ path \in modified <=> Recorded(path) /\ ~SameHash(path)
                    /\ path \in unchanged <=> Recorded(path) /\ SameHash(path)
            /\ deleted = DOMAIN ret.previous_files \ discovered
            /\ DOMAIN ret.files = added \cup modified \cup deleted \cup unchanged

\* a scan that finds a recorded file gone, a recorded file changed
C15_Witness ==
    /\ Scanned
    /\ ret.deleted = <<main_py>>
    /\ ret.modified = <<util_py>>

\* a scan that finds a recorded file unreadable and a new file
C15_WitnessUnreadable ==
    /\ Scanned
    /\ Recorded(util_py)
    /\ ret.source_files[util_py] = Unreadable
    /\ ret.added = <<main_py>>

\* C16: after a scan with semantic analysis enabled every path in added,
\* modified or deleted carries a semantic category: that of the creation of
\* its declarations for an added path, of the modification from the stored
\* declarations for a modified path, of the deletion of the stored
\* declarations for a deleted path
C16_ChangedPathsClassified ==
    Scanned =>
        /\ \A path \in Listed(ret.added) :
              /\ ret.files[path].semantic_category \in ChangeCategory
              /\ ret.files[path].semantic_category =
                    classify_change(<< >>, Definitions(ret.files[path].definitions),
                        None, ret.files[path].new_ast_hash, FALSE, TRUE).category
        /\ \A path \in Listed(ret.modified) :
              /\ ret.files[path].semantic_category \in ChangeCategory
              /\ ret.files[path].semantic_category =
                    classify_change(Definitions(ret.previous_files[path].definitions),
                        Definitions(ret.files[path].definitions),
                        ret.previous_files[path].ast_hash,
                        ret.files[path].new_ast_hash, TRUE, TRUE).category
        /\ \A path \in Listed(ret.deleted) :
              /\ ret.files[path].semantic_category \in ChangeCategory
              /\ ret.files[path].semantic_category =
                    classify_change(Definitions(ret.previous_files[path].definitions),
                        << >>, ret.previous_files[path].ast_hash, None,
                        TRUE, FALSE).category

\* C17: when the content hash of a discovered file cannot be computed, the
\* scan still records every other file it can read, the path is in none of
\* added, modified and deleted, and the snapshot stored for the path before
\* the scan is in state["files"] unchanged after apply_scan_to_state
C17_UnreadableSkipped ==
    \A path \in {main_py, util_py} :
        (Scanned /\ ret.source_files[path] = Unreadable) =>
            /\ \A other \in {main_py, util_py} \ {path} :
                  Hashed(other) => other \in DOMAIN ret.files
            /\ path \notin Listed(ret.added) \cup Listed(ret.modified)
                              \cup Listed(ret.deleted)
            /\ Recorded(path) =>
                  /\ path \in DOMAIN state.files
                  /\ state.files[path] = ret.previous_files[path]

\* C19: for a path whose content hash equals the stored hash and whose stored
\* snapshot has a structural hash, the snapshot persisted after the scan has
\* the hash, ast_hash, language, definitions, imports and semantic_category
\* of the snapshot stored before
C19_UnchangedCarriedForward ==
    \A path \in {main_py, util_py} :
        (/\ Scanned /\ Hashed(path) /\ Recorded(path) /\ SameHash(path)
         /\ ret.previous_files[path].ast_hash # None)
        => /\ path \in DOMAIN state.files
           /\ state.files[path].hash = ret.previous_files[path].hash
           /\ state.files[path].ast_hash = ret.previous_files[path].ast_hash
           /\ state.files[path].language = ret.previous_files[path].language
           /\ state.files[path].definitions = ret.previous_files[path].definitions
           /\ state.files[path].imports = ret.previous_files[path].imports
           /\ state.files[path].semantic_category =
                 ret.previous_files[path].semantic_category

-----------------------------------------------------------------------------
(* Further properties of the dependency graph *)

\* the file reaches itself along imports
OnCycle(g, p) == p \in ReachableIn(g, {p}, Len(g.nodes))

\* the file is on an import cycle or reaches a file that is
ReachesCycle(g, p) ==
    OnCycle(g, p) \/ \E q \in ReachableIn(g, {p}, Len(g.nodes)) : OnCycle(g, q)

\* the first k files of the list come each after all the files they import
Ordered(g, list, k) ==
    \A i \in 1..k :
        \A q \in get_dependencies(g, list[i]) :
            \E j \in 1..(i - 1) : list[j] = q

C26_AdjacencyMirrored ==
    \A p, q \in Paths :
        q \in get_dependencies(TheGraph, p) <=> p \in get_dependents(TheGraph, q)

\* a file with an importer and an import of its own was removed and an edge
\* is left
C26_Witness ==
    /\ ret.op = "remove_file" /\ ret.tracked
    /\ \E p, q \in Paths : p # q /\ q \in get_dependencies(TheGraph, p)
    /\ \E i \in DOMAIN nodes :
          nodes[i].imports # {} /\ get_dependencies(TheGraph, nodes[i].path) = {}

\* C28: topological_sort returns every tracked path exactly once and no
\* other path, with or without cycles and self-imports
C28_SortIsPermutation ==
    ret.op = "topological_sort" =>
        /\ Len(ret.value) = Len(nodes)
        /\ Elems(ret.value) = Tracked(nodes)

\* topological_sort has run on three files, one of which imports itself
C28_Witness ==
    /\ ret.op = "topological_sort"
    /\ Len(nodes) = Cardinality(Paths)
    /\ \E p \in Tracked(nodes) : p \in get_dependencies(TheGraph, p)
    /\ \E p \in Tracked(nodes) : ~ReachesCycle(TheGraph, p)

\* the node of a tracked path
NodeOf(ns, path) == ns[CHOOSE i \in DOMAIN ns : ns[i].path = path]

\* C23: a cache entry for (source path, import string) is created by the
\* first resolution of the pair with the value resolved then, it goes away only
\* in a remove_file of its source path or of the path it resolved to, it
\* never changes, and an add_file for the same source and import string takes
\* its edge from the cached value
C23_CacheEntryLifetime ==
    [][/\ \A k \in DOMAIN import_cache :
            /\ k \notin DOMAIN import_cache' =>
                  /\ ret'.op = "remove_file"
                  /\ ret'.path = k[1] \/ ret'.path = import_cache[k]
            /\ k \in DOMAIN import_cache' => import_cache'[k] = import_cache[k]
       /\ \A k \in DOMAIN import_cache' \ DOMAIN import_cache :
            /\ ret'.op = "add_file" /\ ret'.path = k[1]
            /\ k[2] \in NodeOf(nodes', k[1]).imports
            /\ import_cache'[k] =
                  ResolveFresh(Tracked(nodes'), k[1], k[2], NodeOf(nodes', k[1]).language)
       /\ ret'.op = "add_file" =>
            LET path == ret'.path
                imports == NodeOf(nodes', path).imports
            IN  /\ \A i \in imports : <<path, i>> \in DOMAIN import_cache'
                /\ Get(dependencies', path) =
                      {import_cache'[<<path, i>>] : i \in imports} \ {None}
      ]_vars

\* add_file has met a cache entry made when the import resolved to nothing,
\* and the import would resolve now
C23_Witness ==
    /\ ret.op = "add_file" /\ ret.tracked
    /\ \E i \in NodeOf(nodes, ret.path).imports :
          /\ import_cache[<<ret.path, i>>] = None
          /\ ResolveFresh(Tracked(nodes), ret.path, i,
                          NodeOf(nodes, ret.path).language) # None

\* C27: when add_file(p, imports, language) has returned, get_dependencies(p)
\* is the set of tracked paths that resolving each import of p against the
\* tracked paths gives, whatever calls came before
C27_MemoizationTransparent ==
    ret.op = "add_file" =>
        get_dependencies(TheGraph, ret.path) =
            {ResolveFresh(Tracked(nodes), ret.path, i, NodeOf(nodes, ret.path).language) :
                i \in NodeOf(nodes, ret.path).imports} \ {None}

\* the import string is a relative path-style import
IsRelativeImport(import_name) ==
    StartsWith(import_name, <<".", "/">>) \/ StartsWith(import_name, <<".", ".", "/">>)

RECURSIVE CollapseInside(_, _)
\* the parts with every ".." cancelled against the part before it; a ".."
\* that leads out of the repository stays
CollapseInside(done, rest) ==
    IF rest = << >> THEN done
    ELSE IF Head(rest) = <<".", ".">> /\ done # << >> /\ done[Len(done)] # <<".", ".">>
         THEN CollapseInside(SubSeq(done, 1, Len(done) - 1), Tail(rest))
         ELSE CollapseInside(Append(done, Head(rest)), Tail(rest))

\* the import resolved against the directory of the importing file, as a
\* repository-relative path
RelativeTarget(source_file, import_name) ==
    LET joined == PathJoin(PathParent(PurePath(source_file)), import_name)
    IN  [abs |-> FALSE, parts |-> CollapseInside(<< >>, joined.parts)]

\* the bare path, the path plus each extension, the index file per extension
RelativeCandidates(source_file, import_name) ==
    LET target == RelativeTarget(source_file, import_name)
    IN  <<PathStr(target)>>
        \o [i \in DOMAIN JsExtensions |-> PathStr(target) \o <<".", JsExtensions[i]>>]
        \o [i \in DOMAIN JsExtensions |->
                PathStr(PathJoin(target, <<"index", ".", JsExtensions[i]>>))]

\* the tracked file a relative import stands for, None for any other import
RelativeResolution(tracked, source_file, import_name) ==
    IF IsRelativeImport(import_name)
    THEN FirstTracked(RelativeCandidates(source_file, import_name), tracked)
    ELSE None

\* C22: add_file of a javascript or typescript file under a repository-
\* relative path, tracked for the first time, gives it an edge to the tracked
\* file each "./x" or "../x" import stands for (the bare path, then the path
\* plus .js .jsx .ts .tsx .mjs .cjs, then the index file per extension,
\* against the directory of the importing file) and no edge for any other
\* import
C22_RelativeJsImports ==
    (ret.op = "add_file" /\ ~ret.tracked /\ ret.path \in JsPaths) =>
        get_dependencies(TheGraph, ret.path) =
            {RelativeResolution(Tracked(nodes), ret.path, i) :
                i \in NodeOf(nodes, ret.path).imports} \ {None}

-----------------------------------------------------------------------------
(* Further properties of classify_change *)

\* C29: for every input of classify_change (created, deleted, modified, both
\* missing) has_breaking_changes is true if and only if the category is
\* breaking
C29_BreakingFlagIffCategory ==
    Classified => (cc_out.has_breaking_changes <=> cc_out.category = "breaking")

\* a modified file with a public addition and a breaking signature change,
\* nothing removed, has been classified
C29_Witness ==
    /\ Classified /\ Modified
    /\ cc_out.has_breaking_changes /\ cc_out.has_additions /\ ~cc_out.has_removals

\* a deleted file with private declarations only has been classified as not
\* breaking
C29_WitnessDeleted ==
    /\ Classified /\ Deleted
    /\ cc_in.old_definitions # << >>
    /\ ~cc_out.has_breaking_changes

-----------------------------------------------------------------------------
(* Further properties of the scan *)

\* every file of the repository the scan found could be read
AllReadable(source_files) ==
    \A path \in DOMAIN source_files :
        source_files[path].present => source_files[path].readable

\* C30: a scan of the repository the scan before it saw, no file changed and
\* all files readable, has empty added, modified and deleted lists and lists
\* every tracked path as unchanged
C30_ScanIdempotent ==
    [][(/\ ret.op = "scan" /\ ret'.op = "scan"
        /\ ret'.source_files = ret.source_files
        /\ AllReadable(ret.source_files))
       => /\ ret'.added = << >>
          /\ ret'.modified = << >>
          /\ ret'.deleted = << >>
          /\ Listed(ret'.unchanged) = DOMAIN state.files
          /\ DOMAIN state'.files = DOMAIN state.files]_vars

\* the repository with both files was scanned again after a scan that found
\* util.py modified
C30_Witness ==
    /\ Scanned /\ AllReadable(ret.source_files)
    /\ ret.unchanged = <<main_py, util_py>>
    /\ ret.previous_files[util_py].change_type = "modified"
    /\ ret.previous_files[main_py].change_type = "added"

\* C24: after apply_scan_to_state was called with a dependency graph, with
\* or without tracked files, state["dependency_graph"] is the to_dict() of
\* that graph
C24_PersistedGraphIsScanGraph ==
    ret.op = "watch_scan" => state.dependency_graph = to_dict(TheGraph)

-----------------------------------------------------------------------------
(* Properties of watch mode *)

\* C25: a file event on a processable path that no scan started after it has
\* covered stays in pending_changes, also when it was recorded while a
\* processing run was in progress, so that a later poll scans for it
C25_UncoveredEventStaysPending ==
    watch.uncovered \subseteq watch.pending_changes
====
